---- MODULE Spec2Model ----
(***************************************************************************)
(* A model of holoviews/core/pprint.py: the PrettyPrinter that turns a     *)
(* tree of HoloViews objects into an indented text tree, and the           *)
(* InfoPrinter that assembles the options report of an object.             *)
(*                                                                         *)
(* Text is modelled as a sequence of one-character strings, so that        *)
(* len(), ljust(), join() and concatenation are computed, not assumed.     *)
(* (The few multi-character elements are named tokens: ANSI escape         *)
(* sequences, fixed message fragments, class names in the info report.)    *)
(***************************************************************************)
EXTENDS Integers, Sequences, FiniteSets, TLC

VARIABLES
    tree,             \* the object handed to pprint, recurse and info
    store,            \* InfoPrinter.store: None, or a store and the plot class
                      \* it has registered for type(tree) under the backend
    attrpathsDefault, \* the list object that is recurse's default attrpaths
    siblingsDefault,  \* the list object that is recurse's default siblings
    repeated,         \* pprint has been called more than once
    first,            \* the outcome of the first pprint call
    text,             \* the outcome of the latest pprint call
    rcall,            \* the arguments of the latest direct recurse call
    lines,            \* the (level, line) list the latest recurse call returned
    icall,            \* the arguments of the latest info call
    report            \* the outcome of the latest info call

vars == <<tree, store, attrpathsDefault, siblingsDefault, repeated, first, text,
          rcall, lines, icall, report>>

\* ------------------------------------------------------------------ bounds
\* Largest number of entries (children, sub-objects, mapping values) of a
\* container built directly over atoms.
MaxData == 2
\* Largest nesting depth of containers in a tree.
MaxDepth == 3

\* ------------------------------------------------------- string primitives
\* Python's None, where a string argument may be None (attrpath, pattern).
NoneStr == <<"<None>">>

\* the empty string ''
EmptyStr == <<>>

\* ' ' * n
Spaces(n) == [i \in 1..n |-> " "]

\* str.ljust(width): pad on the right with spaces up to width characters
Ljust(s, width) == s \o Spaces(width - Len(s))

RECURSIVE Join(_, _)
\* sep.join(items)
Join(sep, items) ==
    IF Len(items) = 0 THEN <<>>
    ELSE IF Len(items) = 1 THEN items[1]
    ELSE items[1] \o sep \o Join(sep, Tail(items))

RECURSIVE Flatten(_)
\* the concatenation of a sequence of lists (the effect of repeated +=)
Flatten(lists) ==
    IF Len(lists) = 0 THEN <<>> ELSE Head(lists) \o Flatten(Tail(lists))

RECURSIVE MaxLen(_)
\* max(len(p) for p in items), items non-empty
MaxLen(items) ==
    IF Len(items) = 1 THEN Len(items[1])
    ELSE LET m == MaxLen(Tail(items))
         IN IF Len(items[1]) > m THEN Len(items[1]) ELSE m

\* ------------------------------------------------------------ the objects
\* Every object of a tree is a record of the attributes pprint.py reads:
\*   none      the object is None
\*   type      type(node).__name__
\*   children  hasattr(node, 'children')   (AttrTree, Layout)
\*   main      hasattr(node, 'main')       (AdjointLayout)
\*   deep      node._deep_indexable        (HoloMap, GridSpace, NdOverlay...)
\*   kdims, vdims   the names of the key and value dimensions
\*   keys      node.keys() of an AttrTree: tuples of path components
\*   data      the values held, in insertion order: node.get(path) for each
\*             key of an AttrTree, node.data.values() otherwise
Obj(type, children, main, deep, kdims, vdims, keys, data) ==
    [none |-> FALSE, type |-> type, children |-> children, main |-> main,
     deep |-> deep, kdims |-> kdims, vdims |-> vdims, keys |-> keys,
     data |-> data]

None ==
    [none |-> TRUE, type |-> <<>>, children |-> FALSE, main |-> FALSE,
     deep |-> FALSE, kdims |-> <<>>, vdims |-> <<>>, keys |-> <<>>,
     data |-> <<>>]

\* The marker a line carries when computing it raised AttributeError
\* (None has no attribute 'kdims'): the exception aborts the whole call.
AttributeError == "AttributeError"

\* --------------------------------------------------------- PrettyPrinter
\* PrettyPrinter.tab
tab == <<" ", " ", " ">>

\* s * n
Repeat(s, n) == [i \in 1..(n * Len(s)) |-> s[((i - 1) % Len(s)) + 1]]

\* serialize: (level * tab) + line for every pair, joined by newlines
serialize(ls) ==
    Join(<<"\n">>, [i \in 1..Len(ls) |-> Repeat(tab, ls[i][1]) \o ls[i][2]])

ShiftDropped(ls, shift) == ls

ShiftTwice(ls, shift) == [i \in 1..Len(ls) |-> <<ls[i][1] + shift + shift, ls[i][2]>>]

\* shift: add shift to the level of every line
Shift(ls, shift) == [i \in 1..Len(ls) |-> <<ls[i][1] + shift, ls[i][2]>>]

PaddingFirst(items) == Len(items[1])

\* padding: the longest item's length (the only item's when there is one)
Padding(items) == IF Len(items) > 1 THEN MaxLen(items) ELSE Len(items[1])

\* component_type: type_formatter ':{type}' applied to the type's name;
\* '' for None
component_type(node) == IF node.none THEN EmptyStr ELSE <<":">> \o node.type

\* '.'.join(k) for k in node.keys()
JoinedKeys(node) == [i \in 1..Len(node.keys) |-> Join(<<".">>, node.keys[i])]

\* node.get(path): the child stored under the path, None when there is none
Get(node, path) ==
    LET ks == JoinedKeys(node)
        hit == {i \in 1..Len(ks) : ks[i] = path}
    IN IF hit = {} THEN None ELSE node.data[CHOOSE i \in hit : TRUE]

RebindExtends(node, attrpaths) ==
    IF node.children
    THEN [local |-> attrpaths \o JoinedKeys(node),
          object |-> attrpaths \o JoinedKeys(node)]
    ELSE [local |-> <<>>, object |-> attrpaths]

\* recurse, line 297: the name attrpaths is bound to a new list; `local` is
\* that list and `object` the content of the list object that was passed in
\* (recurse's shared default when the caller gave none), which no statement
\* of recurse changes.
RebindAttrpaths(node, attrpaths) ==
    [local |-> IF node.children THEN JoinedKeys(node) ELSE <<>>,
     object |-> attrpaths]

ChildLevelSame(level) == level

\* recurse, line 301: the children of a node are recursed into at level+1
ChildLevel(level) == level + 1

KeyDimInfoParens(node) == <<"(">> \o Join(<<",">>, node.kdims) \o <<")">>

\* ndmapping_info, line 357: '[%s]' % ','.join(d.name for d in node.kdims)
KeyDimInfo(node) == <<"[">> \o Join(<<",">>, node.kdims) \o <<"]">>

First(data) == data[1]

\* ndmapping_info, line 365: list(node.data.values())[-1]
Last(data) == data[Len(data)]

\* element_info: the type, then the bracketed key dimensions and the
\* parenthesized value dimensions.  The padded string of line 335 is
\* computed and dropped (str.ljust returns a new string).  node.kdims of
\* None raises AttributeError.
element_info(node, siblings, level, value_dims) ==
    LET info == component_type(node)
        padding == Padding([i \in 1..Len(siblings) |-> component_type(siblings[i])])
        dropped == IF Len(siblings) > 0 THEN Ljust(info, padding) ELSE info
        withK == IF Len(node.kdims) >= 1
                 THEN info \o tab \o <<"[">> \o Join(<<",">>, node.kdims) \o <<"]">>
                 ELSE info
        withV == IF value_dims /\ Len(node.vdims) >= 1
                 THEN withK \o tab \o <<"(">> \o Join(<<",">>, node.vdims) \o <<")">>
                 ELSE withK
    IN IF node.none
       THEN [level |-> level, lines |-> << <<level, <<AttributeError>> >> >>]
       ELSE [level |-> level, lines |-> << <<level, withV>> >>]

RECURSIVE recurse(_, _, _, _, _, _)
RECURSIVE ndmapping_info(_, _, _, _)

\* adjointlayout_info: the type, then every component recursed into with
\* recurse's defaults (no attrpath, value_dims=True) and shifted by one
adjointlayout_info(node, siblings, level, value_dims) ==
    LET first_line == component_type(node)
        additional_lines ==
            Flatten([i \in 1..Len(node.data) |->
                       recurse(node.data[i], NoneStr, attrpathsDefault,
                               siblingsDefault, level, TRUE)])
    IN [level |-> level,
        lines |-> << <<level, first_line>> >> \o Shift(additional_lines, 1)]

\* ndmapping_info: the header, then what the last value contributes,
\* shifted by one
ndmapping_info(node, siblings, level, value_dims) ==
    LET first_line == component_type(node) \o tab \o KeyDimInfo(node)
        header == << <<level, first_line>> >>
    IN IF Len(node.data) = 0
       THEN [level |-> level, lines |-> header]
       ELSE LET last == Last(node.data)
                rest ==
                    IF last.children
                    THEN [level |-> level,
                          lines |-> recurse(last, NoneStr, attrpathsDefault,
                                            siblingsDefault, level, TRUE)]
                    ELSE IF ~last.none /\ last.deep
                    THEN ndmapping_info(last, <<>>, level, value_dims)
                    ELSE [level |-> level,
                          lines |-> element_info(last, siblings, level,
                                                 value_dims).lines]
            IN [level |-> rest.level, lines |-> header \o Shift(rest.lines, 1)]

\* node_info: dispatch on what the node has, then the attribute path as a
\* prefix of the first line
node_info(node, attrpath, attrpaths, siblings, level, value_dims) ==
    LET got == IF node.children
               THEN [level |-> level,
                     lines |-> << <<level, component_type(node)>> >>]
               ELSE IF node.main
               THEN adjointlayout_info(node, siblings, level, value_dims)
               ELSE IF node.deep
               THEN ndmapping_info(node, siblings, level, value_dims)
               ELSE element_info(node, siblings, level, value_dims)
    IN IF attrpath # NoneStr
       THEN LET padding == Padding(attrpaths)
                fst == got.lines[1]
                decorated == <<fst[1], <<".">> \o Ljust(attrpath, padding)
                                       \o <<" ">> \o fst[2]>>
            IN [level |-> got.level,
                lines |-> <<decorated>> \o Tail(got.lines)]
       ELSE got

\* recurse: the node's own lines, then its children's, one level deeper
recurse(node, attrpath, attrpaths, siblings, level, value_dims) ==
    LET info == node_info(node, attrpath, attrpaths, siblings, level, value_dims)
        paths == RebindAttrpaths(node, attrpaths).local
        sibs == [i \in 1..Len(paths) |-> Get(node, paths[i])]
    IN info.lines \o
       Flatten([i \in 1..Len(paths) |->
                  recurse(Get(node, paths[i]), paths[i], paths, sibs,
                          ChildLevel(info.level), value_dims)])

\* whether building the list raised
Raised(ls) == \E i \in 1..Len(ls) : \E j \in 1..Len(ls[i][2]) : ls[i][2][j] = AttributeError

\* pprint: serialize(recurse(node))
pprint(node) ==
    LET ls == recurse(node, NoneStr, attrpathsDefault, siblingsDefault, 0, TRUE)
    IN IF Raised(ls) THEN [exc |-> AttributeError, value |-> <<>>]
       ELSE [exc |-> "", value |-> serialize(ls)]

\* ----------------------------------------------------------- InfoPrinter
\* whether sub occurs in s (re.search of a pattern without metacharacters)
Contains(s, sub) ==
    \E i \in 1..(Len(s) - Len(sub) + 1) : SubSeq(s, i, i + Len(sub) - 1) = sub

\* repr() of a str: the text between single quotes
Repr(s) == <<"'">> \o s \o <<"'">>

\* InfoPrinter.headings[0] before its %s: ESC [1;35m ("ESC" is \x1b)
HeadingColor ==
    <<"ESC", "[", "1", ";", "3", "5", "m">>

\* the reset sequence that ends headings and highlights
AnsiReset ==
    <<"ESC", "[", "0", "m">>

\* the sequence highlight puts before a match: \033[43;1;30m
HighlightOn ==
    <<"ESC", "[", "4", "3", ";", "1", ";", "3", "0", "m">>

\* a colour sequence of the pager's output
PagerBold ==
    <<"ESC", "[", "1", ";", "3", "1", "m">>

RECURSIVE AnsiStrip(_)
\* ansi_escape.sub('', s) with ansi_escape = \x1b[^m]*m : every run from an
\* ESC to the next 'm' is removed (an ESC with no 'm' after it is kept)
AnsiStrip(s) ==
    LET starts == {e \in 1..Len(s) :
                     s[e] = "ESC" /\ \E j \in (e + 1)..Len(s) : s[j] = "m"}
    IN IF starts = {} THEN s
       ELSE LET e == CHOOSE x \in starts : \A y \in starts : x <= y
                m == CHOOSE j \in (e + 1)..Len(s) :
                         s[j] = "m" /\ \A k \in (e + 1)..(j - 1) : s[k] # "m"
            IN SubSeq(s, 1, e - 1) \o AnsiStrip(SubSeq(s, m + 1, Len(s)))

RECURSIVE Substitute(_, _)
\* re.sub(pattern, HighlightOn + match + AnsiReset, s): the non-overlapping
\* matches from the left (the model's text is lower case, so IGNORECASE
\* matches what the exact search matches)
Substitute(pattern, s) ==
    LET n == Len(pattern)
        found == {i \in 1..(Len(s) - n + 1) : SubSeq(s, i, i + n - 1) = pattern}
    IN IF found = {} THEN s
       ELSE LET i == CHOOSE x \in found : \A y \in found : x <= y
            IN SubSeq(s, 1, i - 1) \o HighlightOn \o pattern \o AnsiReset
               \o Substitute(pattern, SubSeq(s, i + n, Len(s)))

\* highlight
highlight(pattern, string) ==
    IF pattern = NoneStr THEN string ELSE Substitute(pattern, string)

\* heading: the text between two underlines of char, in colour when ansi
\* (char is never None in this module's calls)
heading(heading_text, char, ansi) ==
    LET heading_ul == Repeat(char, Len(heading_text))
        block == heading_ul \o <<"\n">> \o heading_text \o <<"\n">> \o heading_ul
    IN IF ansi THEN HeadingColor \o block \o AnsiReset ELSE block

\* A parameter: its name and its documentation
Param(name, doc) == [name |-> name, doc |-> doc]

\* the parameter every param.Parameterized class has
NameParam ==
    Param(<<"n", "a", "m", "e">>, <<"i", "d", "e", "n", "t", "i", "f", "i", "e", "r">>)

AspectParam ==
    Param(<<"a", "s", "p", "e", "c", "t">>, <<"r", "a", "t", "i", "o", " ", "o", "f", " ", "t", "h", "e", " ", "a", "x", "e", "s">>)

DpiParam ==
    Param(<<"d", "p", "i">>, <<"d", "o", "t", "s", ",", " ", "a", " ", "r", "a", "t", "i", "o">>)


\* regexp_filter(pattern): the pattern is found in the name or in the doc
regexp_filter(pattern, p) == Contains(p.name, pattern) \/ Contains(p.doc, pattern)

\* ParamFilter.__call__ on the parameters of obj: a class derived from
\* param.Parameterized (which brings 'name') holding the parameters the
\* filter accepts
ParamFilter(params, pattern) ==
    LET Keep(p) == p # NameParam /\ regexp_filter(pattern, p)
    IN <<NameParam>> \o SelectSeq(params, Keep)

RECURSIVE PagerLines(_)
\* The text the external ParamPager gives for an object: one coloured line
\* per parameter, the name and the doc
PagerLines(params) ==
    IF Len(params) = 0 THEN <<>>
    ELSE PagerBold \o params[1].name \o AnsiReset \o <<":", " ">>
         \o params[1].doc \o <<"\n">> \o PagerLines(Tail(params))

\* InfoPrinter.ppager, the class attribute: ParamPager() (never None here)
ppager == "ParamPager"

\* get_parameter_info with show_values=True (options_info's call)
get_parameter_info(params, ansi, pattern) ==
    IF ppager = "None" THEN EmptyStr
    ELSE LET obj == IF pattern # NoneStr THEN ParamFilter(params, pattern)
                    ELSE params
         IN IF pattern # NoneStr /\ Len(obj) <= 1 THEN NoneStr
            ELSE LET info == PagerLines(obj)
                 IN highlight(pattern, IF ansi THEN info ELSE AnsiStrip(info))

StyleHeading ==
    <<"S", "t", "y", "l", "e", " ", "O", "p", "t", "i", "o", "n", "s">>

PlotHeading ==
    <<"P", "l", "o", "t", " ", "O", "p", "t", "i", "o", "n", "s">>

TargetHeading ==
    <<"T", "a", "r", "g", "e", "t", " ", "S", "p", "e", "c", "i", "f", "i",
      "c", "a", "t", "i", "o", "n", "s">>

ConsultOpen ==
    <<"\n", "(", "C", "o", "n", "s", "u", "l", "t", " ">>

ConsultClose ==
    <<"'", "s", " ", "d", "o", "c", "u", "m", "e", "n", "t", "a", "t", "i",
      "o", "n", " ", "f", "o", "r", " ", "m", "o", "r", "e", " ", "i", "n",
      "f", "o", "r", "m", "a", "t", "i", "o", "n", ".", ")">>

NoStyleMsg ==
    <<"\t", "<", "N", "o", " ", "s", "t", "y", "l", "e", " ", "o", "p",
      "t", "i", "o", "n", "s", " ", "a", "v", "a", "i", "l", "a", "b", "l",
      "e", ">">>

PlotOptionsIntro ==
    <<"T", "h", "e", " ", "p", "l", "o", "t", " ", "o", "p", "t", "i", "o",
      "n", "s", " ", "a", "r", "e", " ", "t", "h", "e", " ", "p", "a", "r",
      "a", "m", "e", "t", "e", "r", "s", " ", "o", "f", " ", "t", "h", "e",
      " ", "p", "l", "o", "t", "t", "i", "n", "g", " ", "c", "l", "a", "s",
      "s", ":", "\n">>

NoMsgOpen ==
    <<"N", "o", " ">>

MatchingMsg ==
    <<" ", "p", "a", "r", "a", "m", "e", "t", "e", "r", "s", " ", "f", "o",
      "u", "n", "d", " ", "m", "a", "t", "c", "h", "i", "n", "g", " ", "p",
      "a", "t", "t", "e", "r", "n", " ">>

NotFoundMsg ==
    <<" ", "p", "a", "r", "a", "m", "e", "t", "e", "r", "s", " ", "f", "o",
      "u", "n", "d", ".">>

ElementsUrl ==
    <<"h", "t", "t", "p", "s", ":", "/", "/", "i", "o", "a", "m", ".", "g",
      "i", "t", "h", "u", "b", ".", "i", "o", "/", "h", "o", "l", "o", "v",
      "i", "e", "w", "s", "/", "T", "u", "t", "o", "r", "i", "a", "l", "s",
      "/", "E", "l", "e", "m", "e", "n", "t", "s", ".", "h", "t", "m", "l",
      "#">>

ContainersUrl ==
    <<"h", "t", "t", "p", "s", ":", "/", "/", "i", "o", "a", "m", ".", "g",
      "i", "t", "h", "u", "b", ".", "i", "o", "/", "h", "o", "l", "o", "v",
      "i", "e", "w", "s", "/", "T", "u", "t", "o", "r", "i", "a", "l", "s",
      "/", "C", "o", "n", "t", "a", "i", "n", "e", "r", "s", ".", "h", "t",
      "m", "l", "#">>

OnlineMsg ==
    <<"\n", "O", "n", "l", "i", "n", "e", " ", "e", "x", "a", "m", "p",
      "l", "e", ":", " ">>

HelpMsg ==
    <<"\n", "H", "e", "l", "p", " ", "f", "o", "r", " ", "t", "h", "e",
      " ", "d", "a", "t", "a", " ", "o", "b", "j", "e", "c", "t", ":", " ",
      "h", "o", "l", "o", "v", "i", "e", "w", "s", ".", "h", "e", "l", "p",
      "(">>

HelpOrMsg ==
    <<")", " ", "o", "r", " ", "h", "o", "l", "o", "v", "i", "e", "w", "s",
      ".", "h", "e", "l", "p", "(", "<">>

HelpEndMsg ==
    <<"_", "i", "n", "s", "t", "a", "n", "c", "e", ">", ")">>

TargetHeader ==
    <<"\n", "T", "a", "r", "g", "e", "t", "s", " ", "i", "n", " ", "t",
      "h", "i", "s", " ", "o", "b", "j", "e", "c", "t", " ", "a", "v", "a",
      "i", "l", "a", "b", "l", "e", " ", "f", "o", "r", " ", "c", "u", "s",
      "t", "o", "m", "i", "z", "a", "t", "i", "o", "n", ":", "\n">>

TargetFooter ==
    <<"\n", "T", "o", " ", "s", "e", "e", " ", "t", "h", "e", " ", "o",
      "p", "t", "i", "o", "n", "s", " ", "i", "n", "f", "o", " ", "f", "o",
      "r", " ", "o", "n", "e", " ", "o", "f", " ", "t", "h", "e", "s", "e",
      " ", "t", "a", "r", "g", "e", "t", " ", "s", "p", "e", "c", "i", "f",
      "i", "c", "a", "t", "i", "o", "n", "s", ",", "\n", "w", "h", "i",
      "c", "h", " ", "a", "r", "e", " ", "o", "f", " ", "t", "h", "e", " ",
      "f", "o", "r", "m", " ", "{", "t", "y", "p", "e", "}", "[", ".", "{",
      "g", "r", "o", "u", "p", "}", "[", ".", "{", "l", "a", "b", "e", "l",
      "}", "]", "]", ",", " ", "d", "o", " ", "h", "o", "l", "o", "v", "i",
      "e", "w", "s", ".", "h", "e", "l", "p", "(", "{", "t", "y", "p", "e",
      "}", ")", ".">>

ElementMsg ==
    <<"E", "l", "e", "m", "e", "n", "t", ":", " ">>

ElementsMsg ==
    <<"E", "l", "e", "m", "e", "n", "t", "s", ":", "\n", " ", " ", " ">>

ContainerMsg ==
    <<"C", "o", "n", "t", "a", "i", "n", "e", "r", ":", " ">>

ContainersMsg ==
    <<"C", "o", "n", "t", "a", "i", "n", "e", "r", "s", ":", "\n", " ",
      " ", " ">>

Matplotlib ==
    <<"m", "a", "t", "p", "l", "o", "t", "l", "i", "b">>

RasterPlot ==
    <<"R", "a", "s", "t", "e", "r", "P", "l", "o", "t">>

GridPlot ==
    <<"G", "r", "i", "d", "P", "l", "o", "t">>

Cmap ==
    <<"c", "m", "a", "p">>

Alpha ==
    <<"a", "l", "p", "h", "a">>

\* A plot class: its __name__, its style_opts, its renderer's backend, its
\* parameters, and (for a PlotSelector) the plot classes it selects among
PlotClass(name, style_opts, params, plot_classes) ==
    [none |-> FALSE, name |-> name, style_opts |-> style_opts,
     backend |-> Matplotlib, params |-> params, plot_classes |-> plot_classes]

\* registry[backend].get(type, None) when nothing is registered for the type
NoPlot ==
    [none |-> TRUE, name |-> <<>>, style_opts |-> <<>>, backend |-> <<>>,
     params |-> <<>>, plot_classes |-> <<>>]

\* options_info: the style options of the plot class, then its parameters
\* or one of the two messages
options_info(plot_class, ansi, pattern) ==
    LET style_msg ==
            IF Len(plot_class.style_opts) > 0
            THEN <<"\t">> \o Join(<<",", " ">>, plot_class.style_opts) \o <<"\n">>
                 \o ConsultOpen \o plot_class.backend \o ConsultClose
            ELSE NoStyleMsg
        param_info == get_parameter_info(plot_class.params, ansi, pattern)
        head == << heading(StyleHeading, <<"-">>, ansi), EmptyStr, style_msg,
                   EmptyStr, heading(PlotHeading, <<"-">>, ansi), EmptyStr >>
        tail == IF param_info # NoneStr
                THEN <<PlotOptionsIntro, param_info>>
                ELSE IF pattern # NoneStr
                THEN << NoMsgOpen \o Repr(plot_class.name) \o MatchingMsg
                        \o Repr(pattern) \o <<".">> >>
                ELSE << NoMsgOpen \o Repr(plot_class.name) \o NotFoundMsg >>
    IN Join(<<"\n">>, head \o tail)

\* str.lower() on the type names of this model
Lower(s) ==
    LET low(c) == CASE c = "A" -> "a" [] c = "G" -> "g" [] c = "H" -> "h"
                    [] c = "I" -> "i" [] c = "L" -> "l" [] c = "M" -> "m"
                    [] c = "S" -> "s" [] c = "T" -> "t" [] OTHER -> c
    IN [i \in 1..Len(s) |-> low(s[i])]

\* object_info: the link to the tutorial and the help hint
object_info(obj, name) ==
    LET element == ~obj.deep
        link == (IF element THEN ElementsUrl ELSE ContainersUrl) \o name
    IN OnlineMsg \o link \o HelpMsg \o name \o HelpOrMsg \o Lower(name)
       \o HelpEndMsg

\* obj.group and obj.label: the defaults, the type's name and ''
GroupOf(obj) == obj.type

LabelOf(obj) == EmptyStr

\* group_sanitizer and label_sanitizer: spaces become underscores (the
\* names of this model are capitalised identifiers already)
sanitize_identifier(s) ==
    [i \in 1..Len(s) |-> IF s[i] = " " THEN "_" ELSE s[i]]

\* get_target: (element target, container target), one of them None
get_target(obj) ==
    LET label == IF LabelOf(obj) # EmptyStr
                 THEN <<".">> \o sanitize_identifier(LabelOf(obj)) ELSE EmptyStr
        target == obj.type \o <<".">> \o sanitize_identifier(GroupOf(obj)) \o label
        values == obj.children \/ (obj.deep /\ ~obj.main)
    IN IF values THEN <<NoneStr, target>> ELSE <<target, NoneStr>>

RECURSIVE Traverse(_)
\* obj.traverse(fn): fn applied to the object and to every object below it
Traverse(obj) ==
    <<get_target(obj)>> \o
    Flatten([i \in 1..Len(obj.data) |->
               IF obj.data[i].none THEN <<>> ELSE Traverse(obj.data[i])])

RECURSIVE Sorted(_)
\* sorted(set of targets): the targets of this model differ in their first
\* two letters, ordered Ad < Gr < Ho < Im < La < Te
Sorted(S) ==
    IF S = {} THEN <<>>
    ELSE LET rank(t) == CASE t[1] = "A" -> 1 [] t[1] = "G" -> 2
                          [] t[1] = "H" -> 3 [] t[1] = "I" -> 4
                          [] t[1] = "L" -> 5 [] OTHER -> 6
             least == CHOOSE t \in S : \A u \in S : rank(t) <= rank(u)
         IN <<least>> \o Sorted(S \ {least})

\* target_info of an instance
target_info(obj, ansi) ==
    LET targets == Traverse(obj)
        element_set == {targets[i][1] : i \in 1..Len(targets)} \ {NoneStr}
        container_set == {targets[i][2] : i \in 1..Len(targets)} \ {NoneStr}
        el_info ==
            IF Cardinality(element_set) = 1
            THEN ElementMsg \o (CHOOSE t \in element_set : TRUE)
            ELSE IF Cardinality(element_set) > 1
            THEN ElementsMsg \o Join(<<"\n", " ", " ", " ">>, Sorted(element_set))
            ELSE NoneStr
        co_info ==
            IF Cardinality(container_set) = 1
            THEN ContainerMsg \o (CHOOSE t \in container_set : TRUE)
            ELSE IF Cardinality(container_set) > 1
            THEN ContainersMsg \o Join(<<"\n", " ", " ", " ">>, Sorted(container_set))
            ELSE NoneStr
        info == IF el_info # NoneStr /\ co_info # NoneStr
                THEN el_info \o <<"\n", "\n">> \o co_info
                ELSE IF el_info # NoneStr THEN el_info
                ELSE co_info
    IN Join(<<"\n">>, << heading(TargetHeading, <<"-">>, ansi), TargetHeader,
                         info, TargetFooter >>)

\* The parameters of the objects of a tree
ObjParams ==
    << NameParam,
       Param(<<"g", "r", "o", "u", "p">>, <<"a", " ", "n", "a", "m", "e">>),
       Param(<<"l", "a", "b", "e", "l">>, <<"a", " ", "t", "i", "t", "l", "e">>) >>

\* info with the plot class looked up (and, for a PlotSelector, picked)
info(obj, isclass, plot_class, ansi, visualization, pattern) ==
    LET name == obj.type
    IN IF ~visualization \/ plot_class.none
       THEN LET filtered == IF pattern # NoneStr
                            THEN ParamFilter(ObjParams, pattern) ELSE ObjParams
            IN IF pattern # NoneStr /\ Len(filtered) <= 1
               THEN NoMsgOpen \o Repr(name) \o MatchingMsg \o Repr(pattern)
               ELSE LET text0 == PagerLines(filtered)
                    IN highlight(pattern,
                                 IF ansi THEN text0 ELSE AnsiStrip(text0))
       ELSE LET prefix == IF isclass THEN name
                          ELSE name \o <<":", " ">> \o GroupOf(obj) \o <<" ">>
                               \o LabelOf(obj)
                l1 == <<prefix, object_info(obj, name)>>
                l2 == IF ~isclass THEN <<EmptyStr, target_info(obj, ansi)>>
                      ELSE <<>>
                l3 == <<EmptyStr, options_info(plot_class, ansi, pattern)>>
            IN Join(<<"\n">>, l1 \o l2 \o l3)

\* --------------------------------------------------------------- the trees
\* Elements: one with key and value dimensions, one with neither
Image ==
    Obj(<<"I", "m", "a", "g", "e">>, FALSE, FALSE, FALSE,
        << <<"x">>, <<"y">> >>, << <<"z">> >>, <<>>, <<>>)

Text ==
    Obj(<<"T", "e", "x", "t">>, FALSE, FALSE, FALSE, <<>>, <<>>, <<>>, <<>>)

\* A HoloMap over one key dimension holding the given values
HoloMap(data) ==
    Obj(<<"H", "o", "l", "o", "M", "a", "p">>, FALSE, FALSE, TRUE,
        << <<"t">> >>, <<>>, <<>>, data)

\* A GridSpace over two key dimensions holding the given values
GridSpace(data) ==
    Obj(<<"G", "r", "i", "d", "S", "p", "a", "c", "e">>, FALSE, FALSE, TRUE,
        << <<"a">>, <<"b">> >>, <<>>, <<>>, data)

\* A Layout (an AttrTree) holding the given children under the given keys
Layout(keys, data) ==
    Obj(<<"L", "a", "y", "o", "u", "t">>, TRUE, FALSE, FALSE,
        <<>>, <<>>, keys, data)

\* An AdjointLayout holding the given components, main first
AdjointLayout(deep, data) ==
    Obj(<<"A", "d", "j", "o", "i", "n", "t", "L", "a", "y", "o", "u", "t">>,
        FALSE, TRUE, deep, <<>>, <<>>, <<>>, data)

\* The keys of the Layouts, as tuples of path components:
\* ('a',), ('bb',), ('A', 'I'), ('cccc',)
KeyPool ==
    << << <<"a">> >>, << <<"b", "b">> >>, << <<"A">>, <<"I">> >>,
       << <<"c", "c", "c", "c">> >> >>

Leaves == {Image, Text}

EmptyMaps == {HoloMap(<<>>), GridSpace(<<>>)}

Atoms == Leaves \cup EmptyMaps

\* The containers of 1..MaxData entries drawn from S; a mapping's values
\* may be None
Wide(S) ==
    UNION {
        {Layout(SubSeq(KeyPool, 1, n), d) : d \in [1..n -> S]}
        \cup {AdjointLayout(dp, d) : dp \in BOOLEAN, d \in [1..n -> S]}
        \cup {HoloMap(d) : d \in [1..n -> S \cup {None}]}
        : n \in 1..MaxData}

\* The containers that nest a tree one level deeper
Wrap(t) ==
    { Layout(<< KeyPool[4], KeyPool[1] >>, <<t, Image>>),
      AdjointLayout(TRUE, <<t>>),
      GridSpace(<<Text, t>>) }

RECURSIVE TreesAt(_)
TreesAt(d) ==
    IF d = 1 THEN Wide(Atoms) ELSE UNION {Wrap(t) : t \in TreesAt(d - 1)}

Trees == Atoms \cup UNION {TreesAt(d) : d \in 1..MaxDepth}

\* --------------------------------------------------------------- the calls
\* An outcome: the exception raised ("" when the call returned) and the value
NoResult == [exc |-> "", value |-> <<"<no call>">>]

Returned(v) == [exc |-> "", value |-> v]

Raise(e) == [exc |-> e, value |-> <<>>]

NoCall ==
    [called |-> FALSE, isclass |-> FALSE, ansi |-> FALSE,
     visualization |-> FALSE, pattern |-> NoneStr]

\* InfoPrinter.store as the class body leaves it (line 83)
StoreNone == [set |-> FALSE, plot_class |-> NoPlot]

\* The plot classes a store may have registered for the object's type
PlotClasses ==
    { PlotClass(RasterPlot, so, <<NameParam>> \o extra, <<>>) :
        so \in {<<>>, <<Cmap, Alpha>>},
        extra \in {<<>>, <<AspectParam>>, <<AspectParam, DpiParam>>} }

\* A PlotSelector over two plot classes
Selector ==
    PlotClass(GridPlot, <<>>, <<NameParam>>,
              << PlotClass(GridPlot, <<Cmap>>, <<NameParam, DpiParam>>, <<>>),
                 PlotClass(RasterPlot, <<>>, <<NameParam>>, <<>>) >>)

Stores ==
    {StoreNone}
    \cup {[set |-> TRUE, plot_class |-> pc] :
            pc \in PlotClasses \cup {NoPlot, Selector}}

\* None, and patterns that match both plot parameters, one, only 'name',
\* and nothing
Patterns ==
    { NoneStr, <<"r", "a", "t", "i", "o">>, <<"d", "p", "i">>,
      <<"n", "a", "m", "e">>, <<"z", "z", "z">> }

\* The objects info is asked about
InfoObjs == {Image, HoloMap(<<Image>>), Layout(SubSeq(KeyPool, 1, 2), <<Image, Text>>)}

Fresh ==
    /\ attrpathsDefault = <<>>
    /\ siblingsDefault = <<>>
    /\ repeated = FALSE
    /\ first = NoResult
    /\ text = NoResult
    /\ rcall = "none"
    /\ lines = NoResult
    /\ icall = NoCall
    /\ report = NoResult

\* The printer's inputs: any tree, the store as the class body leaves it
InitTrees == tree \in Trees /\ store = StoreNone /\ Fresh

\* The reporter's inputs: an object and a store
InitInfo == tree \in InfoObjs /\ store \in Stores /\ Fresh

Init == InitTrees \/ InitInfo

\* PrettyPrinter.pprint(tree)
PprintCall ==
    /\ text' = pprint(tree)
    /\ first' = IF first = NoResult THEN pprint(tree) ELSE first
    /\ repeated' = (first # NoResult)
    /\ attrpathsDefault' = RebindAttrpaths(tree, attrpathsDefault).object
    /\ UNCHANGED <<tree, store, siblingsDefault, rcall, lines, icall, report>>

\* PrettyPrinter.recurse(tree, value_dims=vd)
RecurseCall(vd) ==
    /\ rcall' = IF vd THEN "value_dims=True" ELSE "value_dims=False"
    /\ lines' = LET ls == recurse(tree, NoneStr, attrpathsDefault,
                                  siblingsDefault, 0, vd)
                IN IF Raised(ls) THEN Raise(AttributeError) ELSE Returned(ls)
    /\ attrpathsDefault' = RebindAttrpaths(tree, attrpathsDefault).object
    /\ UNCHANGED <<tree, store, siblingsDefault, repeated, first, text, icall,
                   report>>

\* InfoPrinter.info(tree or type(tree), ansi, 'matplotlib', visualization,
\* pattern): cls.store.registry raises AttributeError while the store is
\* None; a PlotSelector stands for one of its plot classes, whichever
\* values()[0] of its dict is
InfoCall(isclass, ansi, visualization, pattern) ==
    /\ icall' = [called |-> TRUE, isclass |-> isclass, ansi |-> ansi,
                 visualization |-> visualization, pattern |-> pattern]
    /\ IF ~store.set
       THEN report' = Raise(AttributeError)
       ELSE LET found == store.plot_class
                picks == IF Len(found.plot_classes) > 0
                         THEN {found.plot_classes[k] :
                                 k \in 1..Len(found.plot_classes)}
                         ELSE {found}
            IN \E plot_class \in picks :
                  report' = Returned(info(tree, isclass, plot_class, ansi,
                                          visualization, pattern))
    /\ UNCHANGED <<tree, store, attrpathsDefault, siblingsDefault, repeated,
                   first, text, rcall, lines>>

NextPprint == PprintCall

NextRecurse == \E vd \in BOOLEAN : RecurseCall(vd)

NextInfo ==
    \E isclass \in BOOLEAN, ansi \in BOOLEAN, visualization \in BOOLEAN,
       pattern \in Patterns :
        InfoCall(isclass, ansi, visualization, pattern)

Next == NextPprint \/ NextRecurse \/ NextInfo

\* The whole program
Spec == Init /\ [][Next]_vars

\* pprint called, again and again, on a tree
SpecPprint == InitTrees /\ [][NextPprint]_vars

\* recurse called on a tree, with and without value dimensions
SpecRecurse == InitTrees /\ [][NextRecurse]_vars

\* info called on an object
SpecInfo == InitInfo /\ [][NextInfo]_vars

\* ------------------------------------------------------------- the claims
\* What the claims speak of, read off the tree and the output alone.
IsGroup(n) == ~n.none /\ n.children

IsComposite(n) == ~n.none /\ ~n.children /\ n.main

IsMapping(n) == ~n.none /\ ~n.children /\ ~n.main /\ n.deep

IsLeaf(n) == ~n.none /\ ~n.children /\ ~n.main /\ ~n.deep

LastEntry(n) == n.data[Len(n.data)]

\* the header of a mapping: ':Type   [k1,k2]'
HeaderOf(n) ==
    <<":">> \o n.type \o <<" ", " ", " ", "[">> \o Join(<<",">>, n.kdims)
    \o <<"]">>

\* the dotted path of the i-th child of a group
PathOf(n, i) == Join(<<".">>, n.keys[i])

\* the longest path among the children of a group
WidestPath(n) ==
    CHOOSE w \in {Len(PathOf(n, i)) : i \in 1..Len(n.keys)} :
        \A i \in 1..Len(n.keys) : Len(PathOf(n, i)) <= w

\* '.' + path, filled with spaces to the widest path, + ' '
PrefixOf(n, i) ==
    <<".">> \o PathOf(n, i)
    \o [k \in 1..(WidestPath(n) - Len(PathOf(n, i))) |-> " "] \o <<" ">>

RECURSIVE SplitLines(_)
\* the lines of a text
SplitLines(s) ==
    LET ends == {i \in 1..Len(s) : s[i] = "\n"}
    IN IF ends = {} THEN <<s>>
       ELSE LET e == CHOOSE x \in ends : \A y \in ends : x <= y
            IN <<SubSeq(s, 1, e - 1)>> \o SplitLines(SubSeq(s, e + 1, Len(s)))

\* the number of leading tabs (three spaces each) of a line of text
Indent(l) ==
    LET blanks == CHOOSE k \in 0..Len(l) :
                      /\ \A j \in 1..k : l[j] = " "
                      /\ (k = Len(l) \/ l[k + 1] # " ")
    IN blanks \div 3

StartsWith(l, pre) == Len(l) >= Len(pre) /\ SubSeq(l, 1, Len(pre)) = pre

EndsWith(l, post) ==
    Len(l) >= Len(post) /\ SubSeq(l, Len(l) - Len(post) + 1, Len(l)) = post

Printed == first # NoResult /\ text.exc = ""

Recursed == rcall # "none" /\ lines.exc = ""

TextLines == SplitLines(text.value)

RECURSIVE ChainLen(_)
\* how many non-empty mappings are nested, last entry in last entry, above
\* a leaf (0 when the tree is no such chain)
ChainLen(n) ==
    IF IsMapping(n) /\ Len(n.data) > 0
    THEN IF IsLeaf(LastEntry(n)) THEN 1
         ELSE IF ChainLen(LastEntry(n)) > 0 THEN 1 + ChainLen(LastEntry(n))
         ELSE 0
    ELSE 0

\* C1 as the specification states it: in pprint's text of a chain of nested
\* non-empty mappings above a leaf, the middle mapping's header is at the
\* level of the outer mapping's header and the leaf's line exactly one
\* level deeper than the outermost header.
C1_FlattenedChain ==
    (Printed /\ ChainLen(tree) = 2) =>
        /\ Len(TextLines) = 3
        /\ Indent(TextLines[2]) = Indent(TextLines[1])
        /\ Indent(TextLines[3]) = Indent(TextLines[1]) + 1

\* C1 as the code has it: in pprint's text of a chain of k >= 2 nested
\* non-empty mappings above a leaf there are k+1 lines, every nested
\* mapping's header is one level deeper than the header of the mapping that
\* holds it, and the leaf's line is one level deeper than the innermost
\* header (k levels below the outermost header).
C1_NestedChain ==
    (Printed /\ ChainLen(tree) >= 2) =>
        /\ Len(TextLines) = ChainLen(tree) + 1
        /\ \A i \in 1..Len(TextLines) : Indent(TextLines[i]) = i - 1

\* a chain of three mappings above a leaf has been printed
C1_Witness == Printed /\ ChainLen(tree) = 3

\* the block of lines a child of a group contributes when it is recursed
\* into without an attribute path, one level below the group
Undecorated(n, i, vd) ==
    recurse(n.data[i], NoneStr, <<>>, <<>>, 1, vd)

\* that block with the path prefix put before its first line, and no other
\* line touched
Decorated(n, i, vd) ==
    LET blk == Undecorated(n, i, vd)
    IN << <<blk[1][1], PrefixOf(n, i) \o blk[1][2]>> >> \o Tail(blk)

RECURSIVE RenderedPaths(_)
RECURSIVE RenderedBelowLast(_)
\* how many children of groups the printer reaches in a tree: every child
\* of a group, what is below every component of a composite, and what is
\* below the last entry of a mapping
RenderedPaths(n) ==
    IF n.none THEN 0
    ELSE IF n.children \/ n.main
    THEN LET below == [i \in 1..Len(n.data) |-> RenderedPaths(n.data[i])]
             sum[k \in 0..Len(n.data)] ==
                 IF k = 0 THEN 0 ELSE sum[k - 1] + below[k]
         IN (IF n.children THEN Len(n.data) ELSE 0) + sum[Len(n.data)]
    ELSE IF n.deep /\ Len(n.data) > 0 THEN RenderedBelowLast(LastEntry(n))
    ELSE 0

\* the same for the last entry of a mapping, which is a group, or is itself
\* read as a mapping when it is deeply indexable, or else is a single line
RenderedBelowLast(n) ==
    IF n.none THEN 0
    ELSE IF n.children THEN RenderedPaths(n)
    ELSE IF n.deep /\ Len(n.data) > 0 THEN RenderedBelowLast(LastEntry(n))
    ELSE 0

\* C2: what recurse returns for a group is the group's own line followed,
\* child by child, by the child's block as it is without an attribute path
\* except that its first line is '.' + path, left-justified to the longest
\* sibling path, + ' ' + the undecorated first line; and in every tree the
\* lines that start with '.' are as many as the children of groups reached:
\* the root, the components of composites and the entries of mappings get
\* no prefix.
C2_PathPrefix ==
    Recursed =>
        /\ IsGroup(tree) =>
              lines.value =
                  << <<0, <<":">> \o tree.type>> >>
                  \o Flatten([i \in 1..Len(tree.data) |->
                                Decorated(tree, i, rcall = "value_dims=True")])
        /\ Cardinality({i \in 1..Len(lines.value) :
                          StartsWith(lines.value[i][2], <<".">>)})
              = RenderedPaths(tree)
        /\ StartsWith(lines.value[1][2], <<":">>)

\* a group of two children with paths of different lengths, the first of
\* which spans several lines, has been recursed into
C2_Witness ==
    /\ Recursed
    /\ IsGroup(tree)
    /\ Len(tree.data) = 2
    /\ Len(PathOf(tree, 1)) # Len(PathOf(tree, 2))
    /\ Len(Undecorated(tree, 1, TRUE)) >= 2

\* C3: pprint of a non-empty mapping whose last entry is None does not
\* fail, and gives the mapping's header and no other line.
C3_NoneLastTolerated ==
    (first # NoResult /\ IsMapping(tree) /\ Len(tree.data) > 0
     /\ LastEntry(tree).none) =>
        /\ text.exc = ""
        /\ text.value = HeaderOf(tree)

AllEmptyMappings(n) ==
    /\ Len(n.data) > 0
    /\ \A i \in 1..Len(n.data) : IsMapping(n.data[i]) /\ Len(n.data[i].data) = 0

\* C4: an empty mapping contributes exactly one line, its header (type
\* name, tab, bracketed comma-joined key dimensions), and nothing below it:
\* as the root; as each child of a group; as each component of a composite;
\* and as the last entry of a mapping.  It never raises.
C4_EmptyMapping ==
    /\ (rcall # "none" /\ IsMapping(tree) /\ Len(tree.data) = 0) =>
          lines = Returned(<< <<0, HeaderOf(tree)>> >>)
    /\ (rcall # "none" /\ IsGroup(tree) /\ AllEmptyMappings(tree)) =>
          /\ lines.exc = ""
          /\ Len(lines.value) = 1 + Len(tree.data)
          /\ \A i \in 1..Len(tree.data) :
                /\ lines.value[i + 1][1] = 1
                /\ lines.value[i + 1][2] =
                       PrefixOf(tree, i) \o HeaderOf(tree.data[i])
    /\ (rcall # "none" /\ IsComposite(tree) /\ AllEmptyMappings(tree)) =>
          /\ lines.exc = ""
          /\ Len(lines.value) = 1 + Len(tree.data)
          /\ \A i \in 1..Len(tree.data) :
                lines.value[i + 1] = <<1, HeaderOf(tree.data[i])>>
    /\ (rcall # "none" /\ IsMapping(tree) /\ Len(tree.data) > 0
        /\ IsMapping(LastEntry(tree)) /\ Len(LastEntry(tree).data) = 0) =>
          lines = Returned(<< <<0, HeaderOf(tree)>>,
                              <<1, HeaderOf(LastEntry(tree))>> >>)

\* a group of two empty mappings with different key dimensions has been
\* recursed into
C4_Witness ==
    /\ rcall # "none"
    /\ IsGroup(tree)
    /\ AllEmptyMappings(tree)
    /\ Len(tree.data) = 2
    /\ tree.data[1].kdims # tree.data[2].kdims

HasParen(l) == \E j \in 1..Len(l) : l[j] = "("

\* C5: with value dimensions requested, a line carries a parenthesized
\* part exactly when it is the line of a leaf that has value dimensions
\* (Image, of the leaves here), and the part is '(z)'; with value
\* dimensions not requested, no line of the output carries a parenthesized
\* part, whatever the leaf was reached through.
C5_ValueDims ==
    Recursed =>
        /\ rcall = "value_dims=True" =>
              \A i \in 1..Len(lines.value) :
                 /\ HasParen(lines.value[i][2])
                       <=> Contains(lines.value[i][2], <<":">> \o Image.type)
                 /\ HasParen(lines.value[i][2])
                       => EndsWith(lines.value[i][2],
                                   tab \o <<"(">> \o Join(<<",">>, Image.vdims)
                                   \o <<")">>)
        /\ rcall = "value_dims=False" =>
              \A i \in 1..Len(lines.value) : ~HasParen(lines.value[i][2])

\* the plot classes info may have looked up in the store
Picks ==
    IF Len(store.plot_class.plot_classes) > 0
    THEN {store.plot_class.plot_classes[k] :
            k \in 1..Len(store.plot_class.plot_classes)}
    ELSE {store.plot_class}

\* the parameters of a plot class, other than the inherited 'name', that a
\* pattern is found in
Matching(pc, pattern) ==
    {k \in 1..Len(pc.params) :
        /\ pc.params[k].name # <<"n", "a", "m", "e">>
        /\ (Contains(pc.params[k].name, pattern)
            \/ Contains(pc.params[k].doc, pattern))}

\* C6: in the report of info with visualization requested and a plot class
\* found: with a pattern that leaves the plot class at most one parameter,
\* the message 'No <name> parameters found matching pattern <pattern>.';
\* with no pattern and a plot class that has no parameter of its own, the
\* message 'No <name> parameters found.'; otherwise the parameters' text.
C6_FallbackMessages ==
    (icall.called /\ icall.visualization /\ report.exc = ""
     /\ store.set /\ ~store.plot_class.none) =>
        \E pc \in Picks :
           IF icall.pattern # NoneStr /\ Matching(pc, icall.pattern) = {}
           THEN Contains(report.value,
                         NoMsgOpen \o Repr(pc.name) \o MatchingMsg
                         \o Repr(icall.pattern) \o <<".">>)
           ELSE IF icall.pattern = NoneStr /\ Len(pc.params) <= 1
           THEN Contains(report.value,
                         NoMsgOpen \o Repr(pc.name) \o NotFoundMsg)
           ELSE /\ Contains(report.value, PlotOptionsIntro)
                /\ Contains(report.value, pc.params[1].name)

\* C7: a second pprint call on the tree has the outcome of the first, and
\* the list objects that are recurse's defaults are as the class body made
\* them.
C7_Deterministic ==
    repeated =>
        /\ text = first
        /\ attrpathsDefault = <<>>
        /\ siblingsDefault = <<>>

\* pprint has been called twice on a group that holds a non-empty container
C7_Witness ==
    /\ repeated
    /\ text.exc = ""
    /\ IsGroup(tree)
    /\ \E i \in 1..Len(tree.data) :
          ~IsLeaf(tree.data[i]) /\ Len(tree.data[i].data) > 0

GroupLast == IsMapping(tree) /\ Len(tree.data) > 0 /\ IsGroup(LastEntry(tree))

\* C8 as the specification states it: when the last entry of a mapping is
\* a group, the group's own line is at the level of the mapping's header
\* and the group's children are one level deeper.
C8_GroupAtHeaderLevel ==
    (Printed /\ GroupLast) =>
        /\ Indent(TextLines[2]) = Indent(TextLines[1])
        /\ Indent(TextLines[3]) = Indent(TextLines[1]) + 1

\* C8 as the code has it: when the last entry of a mapping is a group, the
\* group's own line follows the header one level deeper than it, the first
\* line of each of the group's children is two levels deeper than the
\* header, and no later line is less deep than that.
C8_GroupBelowHeader ==
    (Printed /\ GroupLast) =>
        /\ TextLines[2] = tab \o <<":">> \o LastEntry(tree).type
        /\ \A i \in 1..Len(LastEntry(tree).data) :
              \E j \in 3..Len(TextLines) :
                 StartsWith(TextLines[j],
                            tab \o tab \o <<".">> \o PathOf(LastEntry(tree), i))
        /\ \A j \in 3..Len(TextLines) : Indent(TextLines[j]) >= 2

\* a mapping whose last entry is a group of two children has been printed
C8_Witness == Printed /\ GroupLast /\ Len(LastEntry(tree).data) = 2

RECURSIVE OnlyLast(_)
\* the tree with every mapping cut down to its last entry
OnlyLast(n) ==
    IF n.none THEN n
    ELSE IF IsMapping(n) /\ Len(n.data) > 0
    THEN [n EXCEPT !.data = <<OnlyLast(LastEntry(n))>>]
    ELSE [n EXCEPT !.data = [i \in 1..Len(n.data) |-> OnlyLast(n.data[i])]]

\* C9: pprint's outcome for a tree is its outcome for the tree with every
\* mapping cut down to its last entry, so that trees that differ only in
\* the entries before the last of some mapping have one output.
C9_OnlyLastEntry == first # NoResult => text = pprint(OnlyLast(tree))

\* a mapping of two different entries, the last of which can be rendered,
\* has been printed
C9_Witness ==
    /\ Printed
    /\ IsMapping(tree)
    /\ Len(tree.data) = 2
    /\ tree.data[1] # tree.data[2]
    /\ ~tree.data[1].none

\* C10: in the list recurse returns the first line is at level 0, every
\* later line at level 1 or deeper, and no line is more than one level
\* deeper than the line before it.
C10_Indentation ==
    Recursed =>
        /\ lines.value[1][1] = 0
        /\ \A i \in 2..Len(lines.value) :
              /\ lines.value[i][1] >= 1
              /\ lines.value[i][1] <= lines.value[i - 1][1] + 1

\* a tree whose lines go three levels deep and come back has been
\* recursed into
C10_Witness ==
    /\ Recursed
    /\ \E i \in 2..Len(lines.value) :
          /\ lines.value[i - 1][1] >= 3
          /\ lines.value[i][1] < lines.value[i - 1][1]

====
